---- MODULE Spec2Model ----
(***************************************************************************)
(* Model of paramonte/_visualization.py, the visualization facade of the   *)
(* ParaMonte Python interface.  The module body is nine `from M import N`  *)
(* statements (lines 25-33).  The model follows the execution of that body *)
(* by the Python import system: the module cache (sys.modules), the        *)
(* namespace of every collaborator module, the namespace (globals) of the  *)
(* facade module, the position in the module body and the exception that   *)
(* leaves the body.                                                        *)
(***************************************************************************)
EXTENDS Integers, Sequences, FiniteSets, TLC

(* The largest number of times the caller imports the facade in one run.   *)
MaxImports == 3

(* The name under which the facade is cached in sys.modules.               *)
Facade == "_visualization"

(* The body with the heat-map statement (line 31) left out.                *)
ImportsNoHeatMap ==
    << [module |-> "_visutils",        name |-> "ParaMonteFigure"],
       [module |-> "_visutils",        name |-> "Target"],
       [module |-> "_HistPlot",        name |-> "HistPlot"],
       [module |-> "_GridPlot",        name |-> "GridPlot"],
       [module |-> "_LinePlot",        name |-> "LinePlot"],
       [module |-> "_ScatterPlot",     name |-> "ScatterPlot"],
       [module |-> "_DensityMapPlot",  name |-> "DensityMapPlot"],
       [module |-> "_ScatterLinePlot", name |-> "ScatterLinePlot"] >>

(* The body with the statements of lines 28 and 29 exchanged.              *)
ImportsSwapped ==
    << [module |-> "_visutils",        name |-> "ParaMonteFigure"],
       [module |-> "_visutils",        name |-> "Target"],
       [module |-> "_HistPlot",        name |-> "HistPlot"],
       [module |-> "_LinePlot",        name |-> "LinePlot"],
       [module |-> "_GridPlot",        name |-> "GridPlot"],
       [module |-> "_ScatterPlot",     name |-> "ScatterPlot"],
       [module |-> "_HeatMapPlot",     name |-> "HeatMapPlot"],
       [module |-> "_DensityMapPlot",  name |-> "DensityMapPlot"],
       [module |-> "_ScatterLinePlot", name |-> "ScatterLinePlot"] >>

(* The body with the module name of line 27 misspelt.                      *)
ImportsTypo ==
    << [module |-> "_visutils",        name |-> "ParaMonteFigure"],
       [module |-> "_visutils",        name |-> "Target"],
       [module |-> "_HistPlots",       name |-> "HistPlot"],
       [module |-> "_GridPlot",        name |-> "GridPlot"],
       [module |-> "_LinePlot",        name |-> "LinePlot"],
       [module |-> "_ScatterPlot",     name |-> "ScatterPlot"],
       [module |-> "_HeatMapPlot",     name |-> "HeatMapPlot"],
       [module |-> "_DensityMapPlot",  name |-> "DensityMapPlot"],
       [module |-> "_ScatterLinePlot", name |-> "ScatterLinePlot"] >>

(* The import statements of the module body, in source order.              *)
Imports ==
    << [module |-> "_visutils",        name |-> "ParaMonteFigure"],
       [module |-> "_visutils",        name |-> "Target"],
       [module |-> "_HistPlot",        name |-> "HistPlot"],
       [module |-> "_GridPlot",        name |-> "GridPlot"],
       [module |-> "_LinePlot",        name |-> "LinePlot"],
       [module |-> "_ScatterPlot",     name |-> "ScatterPlot"],
       [module |-> "_HeatMapPlot",     name |-> "HeatMapPlot"],
       [module |-> "_DensityMapPlot",  name |-> "DensityMapPlot"],
       [module |-> "_ScatterLinePlot", name |-> "ScatterLinePlot"] >>

NumImports == Len(Imports)

(* The sibling modules of the package that the facade imports from.        *)
Collaborators ==
    {"_visutils", "_HistPlot", "_GridPlot", "_LinePlot", "_ScatterPlot",
     "_HeatMapPlot", "_DensityMapPlot", "_ScatterLinePlot"}

(* The names the facade asks a collaborator for.                           *)
NamesOf(m) == {Imports[i].name : i \in {j \in 1..NumImports : Imports[j].module = m}}

(* The position of a name in the module body.                              *)
IndexOf(n) == CHOOSE i \in 1..NumImports : Imports[i].name = n

(* A namespace with no binding.                                            *)
EmptyNS == [x \in {} |-> 0]

(* No exception.                                                           *)
NoErr == [type |-> "None", module |-> "", name |-> ""]

(* The object a collaborator's body creates for the definition `n` when    *)
(* the body is executed for the serial-th time in this interpreter.        *)
NewObject(m, n, serial) ==
    [definedIn |-> m, cls |-> n, id |-> serial * 10 + IndexOf(n)]

VARIABLES
    env,         \* what the interpreter finds for each collaborator
    sysModules,  \* the modules cached in sys.modules
    modNS,       \* the namespace of each collaborator module
    serial,      \* the number of collaborator bodies executed so far
    ns,          \* the namespace of the facade module object
    pc,          \* the import statement the facade's body is at
    status,      \* "unloaded", "loading", "loaded" or "failed"
    lookupErr,   \* the exception the failed collaborator lookup raised
    callerErr,   \* the exception that reached the importer of the facade
    trace,       \* the names looked up by the current execution of the body
    imports      \* the number of times the caller imported the facade

vars == <<env, sysModules, modNS, serial, ns, pc, status, lookupErr,
          callerErr, trace, imports>>

(* What the interpreter can find for a collaborator: no module of that     *)
(* name, a module whose body raises, or a module that defines all or only  *)
(* some of the requested names.                                            *)
Kinds == {"ok", "missing", "raises", "noname"}

(* The definitions a collaborator of kind k has; d is the set of requested *)
(* names that a "noname" _visutils still defines.                          *)
EnvOf(m, k, d) ==
    [found   |-> k # "missing",
     raises  |-> k = "raises",
     defines |-> IF k = "ok" THEN NamesOf(m)
                 ELSE IF k = "noname" /\ m = "_visutils" THEN d
                 ELSE {}]

(* A collaborator is available when the statement(s) importing from it     *)
(* succeed.                                                                *)
Available(m) ==
    /\ env[m].found
    /\ ~env[m].raises
    /\ NamesOf(m) \subseteq env[m].defines

AllAvailable == \A m \in Collaborators : Available(m)

Init ==
    /\ \E k \in [Collaborators -> Kinds] :
       \E d \in (SUBSET NamesOf("_visutils")) \ {NamesOf("_visutils")} :
          env = [m \in Collaborators |-> EnvOf(m, k[m], d)]
    /\ sysModules = {}
    /\ modNS = [m \in Collaborators |-> EmptyNS]
    /\ serial = 0
    /\ ns = EmptyNS
    /\ pc = 0
    /\ status = "unloaded"
    /\ lookupErr = NoErr
    /\ callerErr = NoErr
    /\ trace = <<>>
    /\ imports = 0

(* The interpreter finds a module file for the name m.                     *)
Found(m) == m \in DOMAIN env /\ env[m].found

(* A module cache that is never consulted: every import executes the body. *)
AlwaysLoad(m, mods) == TRUE

(* `m not in sys.modules`: the import system executes a module's body only *)
(* when the module is not cached.                                          *)
NeedsLoad(m, mods) == m \notin mods

(* The namespace a collaborator's body leaves behind: one new object per   *)
(* definition.                                                             *)
ExecBody(m, k) == [n \in env[m].defines |-> NewObject(m, n, k)]

(* A binding to a copy of the collaborator's object.                       *)
BindCopy(nsp, n, obj) ==
    [x \in (DOMAIN nsp) \cup {n} |->
        IF x = n THEN [obj EXCEPT !.id = @ + 1000] ELSE nsp[x]]

(* A binding that also binds the collaborator module's own name, as        *)
(* `import m` would.                                                       *)
BindModuleToo(nsp, n, obj) ==
    [x \in (DOMAIN nsp) \cup {n, obj.definedIn} |->
        IF x \in {n, obj.definedIn} THEN obj ELSE nsp[x]]

(* `from m import n` binds the name n to the object found in m.            *)
Bind(nsp, n, obj) ==
    [x \in (DOMAIN nsp) \cup {n} |-> IF x = n THEN obj ELSE nsp[x]]

(* An except clause that raises another exception in place of the one it   *)
(* caught.                                                                 *)
Translate(e) == [type |-> "RuntimeError", module |-> Facade, name |-> ""]

(* The statements are not enclosed in try/except: the exception leaves the *)
(* module body as raised.                                                  *)
Propagate(e) == e

(* A facade that is never found in the module cache.                       *)
NeverCached(mods) == FALSE

(* The import system returns the cached module when the facade is in       *)
(* sys.modules.                                                            *)
IsCached(mods) == Facade \in mods

(* A failed module left in sys.modules.                                    *)
KeepRegistered(mods) == mods

(* The import system drops a module whose body raised from sys.modules.    *)
Unregister(mods) == mods \ {Facade}

(* The effect of `from m import n` on the module cache and on the          *)
(* collaborator namespaces, and the object or the exception it yields.     *)
ImportFrom(m, n) ==
    LET load   == NeedsLoad(m, sysModules)
        absent == load /\ ~Found(m)
        broken == load /\ Found(m) /\ env[m].raises
        loaded == load /\ ~absent /\ ~broken
        mods1  == IF loaded THEN sysModules \cup {m} ELSE sysModules
        mns1   == IF loaded THEN [modNS EXCEPT ![m] = ExecBody(m, serial + 1)]
                  ELSE modNS
        ser1   == IF load /\ ~absent THEN serial + 1 ELSE serial
    IN  IF absent
        THEN [ok |-> FALSE, mods |-> mods1, mns |-> mns1, serial |-> ser1,
              err |-> [type |-> "ModuleNotFoundError", module |-> m, name |-> m]]
        ELSE IF broken
        THEN [ok |-> FALSE, mods |-> mods1, mns |-> mns1, serial |-> ser1,
              err |-> [type |-> "CollaboratorError", module |-> m, name |-> ""]]
        ELSE IF n \notin DOMAIN mns1[m]
        THEN [ok |-> FALSE, mods |-> mods1, mns |-> mns1, serial |-> ser1,
              err |-> [type |-> "ImportError", module |-> m, name |-> n]]
        ELSE [ok |-> TRUE, mods |-> mods1, mns |-> mns1, serial |-> ser1,
              obj |-> mns1[m][n]]

(* The caller imports the facade and the facade is not cached: a new       *)
(* module object is registered and its body starts to execute.             *)
BeginLoad ==
    /\ imports < MaxImports
    /\ status # "loading"
    /\ ~IsCached(sysModules)
    /\ imports' = imports + 1
    /\ sysModules' = sysModules \cup {Facade}
    /\ ns' = EmptyNS
    /\ pc' = 1
    /\ status' = "loading"
    /\ lookupErr' = NoErr
    /\ callerErr' = NoErr
    /\ trace' = <<>>
    /\ UNCHANGED <<env, modNS, serial>>

(* The import statement at pc succeeds: its name is bound in the facade;   *)
(* after the last statement the body is done and the facade is loaded.     *)
ImportOk ==
    /\ status = "loading"
    /\ LET st == Imports[pc]
           r  == ImportFrom(st.module, st.name)
       IN  /\ r.ok
           /\ sysModules' = r.mods
           /\ modNS' = r.mns
           /\ serial' = r.serial
           /\ ns' = Bind(ns, st.name, r.obj)
           /\ trace' = Append(trace, st.name)
    /\ pc' = IF pc = NumImports THEN 0 ELSE pc + 1
    /\ status' = IF pc = NumImports THEN "loaded" ELSE "loading"
    /\ UNCHANGED <<env, lookupErr, callerErr, imports>>

(* The import statement at pc raises: the exception leaves the body, the   *)
(* import system drops the facade from sys.modules and the exception       *)
(* reaches the caller.  The module object's dictionary is not cleared: it  *)
(* stays as the body left it (the traceback's frame refers to it).         *)
ImportFail ==
    /\ status = "loading"
    /\ LET st == Imports[pc]
           r  == ImportFrom(st.module, st.name)
       IN  /\ ~r.ok
           /\ sysModules' = Unregister(r.mods)
           /\ modNS' = r.mns
           /\ serial' = r.serial
           /\ lookupErr' = r.err
           /\ callerErr' = Propagate(r.err)
           /\ trace' = Append(trace, st.name)
    /\ status' = "failed"
    /\ UNCHANGED <<env, ns, pc, imports>>

(* The caller imports the facade and the facade is cached: the cached      *)
(* module is returned and no statement of the body runs.                   *)
Reimport ==
    /\ imports < MaxImports
    /\ status # "loading"
    /\ IsCached(sysModules)
    /\ imports' = imports + 1
    /\ UNCHANGED <<env, sysModules, modNS, serial, ns, pc, status, lookupErr,
                   callerErr, trace>>

Next == BeginLoad \/ ImportOk \/ ImportFail \/ Reimport

Spec == Init /\ [][Next]_vars

(* The interpreter keeps executing the body of a module it started.        *)
FairSpec == Spec /\ WF_vars(ImportOk) /\ WF_vars(ImportFail)

(***************************************************************************)
(* Properties                                                              *)
(***************************************************************************)

(* The names of the spec's export list, in the order of the module body.   *)
FixedOrder ==
    << "ParaMonteFigure", "Target", "HistPlot", "GridPlot", "LinePlot",
       "ScatterPlot", "HeatMapPlot", "DensityMapPlot", "ScatterLinePlot" >>

ExportList == {FixedOrder[i] : i \in 1..Len(FixedOrder)}

(* C1: after a successful load every exported name is bound in the facade  *)
(* to the very object its collaborator module holds under that name.       *)
C1_ReferenceIdentical ==
    status = "loaded" =>
        \A i \in 1..NumImports :
            LET m == Imports[i].module
                n == Imports[i].name
            IN  /\ n \in DOMAIN ns
                /\ m \in sysModules
                /\ n \in DOMAIN modNS[m]
                /\ ns[n] = modNS[m][n]

C1_Witness ==
    /\ status = "loaded"
    /\ "HistPlot" \in DOMAIN ns
    /\ ns["HistPlot"] = modNS["_HistPlot"]["HistPlot"]
    /\ ns["Target"] = modNS["_visutils"]["Target"]

C3_ExactNames ==
    status = "loaded" =>
        DOMAIN ns = {"ParaMonteFigure", "Target", "HistPlot", "GridPlot",
                     "LinePlot", "ScatterPlot", "HeatMapPlot",
                     "DensityMapPlot", "ScatterLinePlot"}

C3_Witness ==
    /\ status = "loaded"
    /\ DOMAIN ns = ExportList

(* C4: a load fails only if some collaborator is unavailable, succeeds     *)
(* only if all are available, and with all available a load that started   *)
(* ends loaded.                                                            *)
C4_FailsIffUnavailable ==
    /\ [](status = "failed" => ~AllAvailable)
    /\ [](status = "loaded" => AllAvailable)
    /\ ((status = "loading" /\ AllAvailable) ~> (status = "loaded"))

C4_Witness ==
    /\ status = "loaded"
    /\ AllAvailable
    /\ imports = 1

(* C5: the exception that reaches the importer of the facade is the one    *)
(* the failed collaborator lookup raised, and the facade is not left       *)
(* loaded.                                                                 *)
C5_ErrorPropagates ==
    status = "failed" =>
        /\ lookupErr # NoErr
        /\ lookupErr.module = Imports[pc].module
        /\ callerErr = lookupErr
        /\ Facade \notin sysModules

C5_Witness ==
    /\ status = "failed"
    /\ callerErr = [type |-> "ModuleNotFoundError", module |-> "_ScatterPlot",
                    name |-> "_ScatterPlot"]

(* C6: no step of the facade's load changes the definitions of a           *)
(* collaborator that is already loaded.                                    *)
C6_CollaboratorsUntouched ==
    [][\A m \in Collaborators :
          m \in sysModules => (m \in sysModules' /\ modNS'[m] = modNS[m])]_vars

C6_Witness ==
    /\ status = "failed"
    /\ imports = 2
    /\ "_visutils" \in sysModules
    /\ "_GridPlot" \in sysModules

(* C7, as claimed: the facade re-exports eight names.                      *)
C7_EightNames ==
    status = "loaded" => Cardinality(DOMAIN ns) = 8

(* C7, amended: the facade re-exports nine names, the Figure type, the     *)
(* Target type and seven plot constructors.                                *)
C7_NineNames ==
    status = "loaded" =>
        /\ Cardinality(DOMAIN ns) = 9
        /\ Cardinality((DOMAIN ns) \ {"ParaMonteFigure", "Target"}) = 7

C7_Witness ==
    /\ status = "loaded"
    /\ Cardinality(DOMAIN ns) = 9

(* C8: once the facade is loaded, a further import runs no statement of    *)
(* the body and leaves every binding as it is.                             *)
C8_OneTimeAssembly ==
    [][status = "loaded" =>
          /\ status' = "loaded"
          /\ ns' = ns
          /\ trace' = trace
          /\ pc' = pc
          /\ modNS' = modNS]_vars

C8_Witness ==
    /\ status = "loaded"
    /\ imports = 2
    /\ Len(trace) = 9

(* C9: the names are looked up in the fixed order, each after all earlier  *)
(* ones were resolved, and nothing is looked up or loaded after the first  *)
(* failed lookup.                                                          *)
C9_FixedOrder ==
    /\ Len(trace) <= Len(FixedOrder)
    /\ trace = SubSeq(FixedOrder, 1, Len(trace))
    /\ status = "loading" => Len(trace) = pc - 1
    /\ \A i \in 1..Len(trace) :
          (i < Len(trace) \/ status # "failed") => trace[i] \in DOMAIN ns
    /\ status = "failed" =>
          /\ Len(trace) = pc
          /\ sysModules \subseteq {Imports[i].module : i \in 1..pc}

C9_Witness ==
    /\ status = "failed"
    /\ trace = << "ParaMonteFigure", "Target", "HistPlot", "GridPlot", "LinePlot" >>
    /\ "_GridPlot" \in sysModules

====
